---- MODULE Spec2Model ----
(***************************************************************************)
(* Model of scripts/extract_keys.py: the recursive key-path extractor      *)
(* get_keys and the module-level driver loop over target_modules.          *)
(*                                                                         *)
(* Python strings are sequences of one-character strings, so that          *)
(* concatenation, truthiness, endswith, substring search and the           *)
(* code-point order used by list.sort are computed and not assumed.        *)
(* A Python list whose order is unspecified (list(set(keys)), and every    *)
(* list built from it) is a bag: multiplicities are kept, order is not.    *)
(***************************************************************************)
EXTENDS Bags, FiniteSets, Integers, Sequences, TLC

VARIABLES
    obj,        \* get_keys call under test: the JSON value passed in
    prefix,     \* get_keys call under test: the prefix passed in
    keys,       \* get_keys call under test: the list returned (a bag)
    pc,         \* "call"/"return" for the call under test; "loop"/"exit"/"crashed" for the driver
    module,     \* driver: 1-based position in target_modules of the next module
    fs,         \* driver: what the latest loop iteration found on disk
    opened,     \* driver: names of the files the latest loop iteration opened
    stdout      \* driver: lines the latest loop iteration printed

vars == <<obj, prefix, keys, pc, module, fs, opened, stdout>>

(***************************************************************************)
(* Bounds of the explored inputs.                                          *)
(***************************************************************************)
MaxMembers == 2     \* members per generated object
MaxLen == 2         \* elements per generated array
MaxFiles == 2       \* entries per generated directory listing

(***************************************************************************)
(* Strings.                                                                *)
(***************************************************************************)
Empty == <<>>
Dot == <<".">>
Brackets == <<"[", "]">>

\* ord() of the characters that occur in key paths
Code(c) ==
    CASE c = "." -> 46
      [] c = "[" -> 91
      [] c = "]" -> 93
      [] c = "a" -> 97
      [] c = "b" -> 98
      [] c = "p" -> 112

\* s < t for Python str: first differing character decides, a proper prefix is smaller
RECURSIVE StrLess(_, _)
StrLess(s, t) ==
    IF t = <<>> THEN FALSE
    ELSE IF s = <<>> THEN TRUE
    ELSE IF Head(s) # Head(t) THEN Code(Head(s)) < Code(Head(t))
    ELSE StrLess(Tail(s), Tail(t))

\* s.endswith(suffix)
EndsWith(s, suffix) ==
    /\ Len(s) >= Len(suffix)
    /\ SubSeq(s, Len(s) - Len(suffix) + 1, Len(s)) = suffix

\* sub in s
Contains(s, sub) ==
    \E i \in 1..(Len(s) - Len(sub) + 1) : SubSeq(s, i, i + Len(sub) - 1) = sub

(***************************************************************************)
(* JSON values as json.load builds them: dict, list, or a scalar.          *)
(***************************************************************************)
Scalar(kind) == [type |-> "scalar", kind |-> kind]
Dict(members) == [type |-> "dict", members |-> members]     \* members: function key -> value
List(elems) == [type |-> "list", elems |-> elems]           \* elems: sequence of values

Scalars == {Scalar("str"), Scalar("int"), Scalar("bool"), Scalar("None")}
Num == Scalar("int")

isdict(v) == v.type = "dict"
islist(v) == v.type = "list"

(***************************************************************************)
(* get_keys                                                                *)
(***************************************************************************)
\* line 8: full_key = f"{prefix}.{k}" if prefix else k
FullKey_NoRootCase(pre, k) == pre \o Dot \o k
FullKey(pre, k) == IF pre # Empty THEN pre \o Dot \o k ELSE k

\* line 14: f"{prefix}[]" if prefix else "[]"
ElemPrefix_NoBrackets(pre) == pre
ElemPrefix(pre) == IF pre # Empty THEN pre \o Brackets ELSE Brackets

\* line 12: obj and isinstance(obj[0], (dict, list)); the elements recursed into
Sampled_AllElements(elems) ==
    {elems[i] : i \in {j \in 1..Len(elems) : isdict(elems[j]) \/ islist(elems[j])}}
Sampled(elems) ==
    IF elems # <<>> /\ (isdict(elems[1]) \/ islist(elems[1])) THEN {elems[1]} ELSE {}

\* line 15: list(set(keys))
Dedup_Keep(b) == b
Dedup(b) == SetToBag(BagToSet(b))

RECURSIVE BagSum(_, _)
\* keys.extend over every member of a finite set S of bags given by f
BagSum(S, f) ==
    IF S = {} THEN EmptyBag
    ELSE LET x == CHOOSE y \in S : TRUE
         IN f[x] (+) BagSum(S \ {x}, f)

RECURSIVE get_keys(_, _)
get_keys(o, pre) ==
    LET raw ==
        IF isdict(o) THEN
            BagSum(DOMAIN o.members,
                   [k \in DOMAIN o.members |->
                        SetToBag({FullKey(pre, k)})
                        (+) get_keys(o.members[k], FullKey(pre, k))])
        ELSE IF islist(o) THEN
            BagSum(Sampled(o.elems),
                   [e \in Sampled(o.elems) |-> get_keys(e, ElemPrefix(pre))])
        ELSE EmptyBag
    IN Dedup(raw)

(***************************************************************************)
(* The JSON documents explored: the four scalars, and every nesting, up to *)
(* two containers around a leaf, in which a dict has one freely chosen     *)
(* member and the others drawn from Fillers, and a list has a freely       *)
(* chosen first element and the others drawn from Fillers.                 *)
(***************************************************************************)
Keys == {Empty, <<"a">>, <<"a", ".", "a">>, <<"a", "[", "]">>}
Prefixes == {Empty, <<"p">>}

EmptyDict == Dict(<<>>)
EmptyList == List(<<>>)
Fillers == {Num, Dict(<<"a">> :> Num)}
Leaves == {Num, EmptyDict, EmptyList, Dict(<<"a">> :> Num)}

SeqsUpTo(S, n) == UNION {[1..m -> S] : m \in 0..n}

DictsOver(P) ==
    UNION {UNION {{Dict([x \in S |-> IF x = k THEN v ELSE g[x]]) :
                        v \in P, g \in [S \ {k} -> Fillers]} : k \in S} :
           S \in {T \in SUBSET Keys : Cardinality(T) \in 1..MaxMembers}}

ListsOver(P) == {List(<<v>> \o t) : v \in P, t \in SeqsUpTo(Fillers, MaxLen - 1)}

Nest(P) == P \cup DictsOver(P) \cup ListsOver(P)

Values == Scalars \cup Nest(Nest(Leaves))

(***************************************************************************)
(* One call of get_keys on an arbitrary document and prefix.               *)
(***************************************************************************)
Unbound == "unbound"

\* what an iteration finds at mod_dir, and in the file it opens
Unvisited == [kind |-> "unvisited"]
Absent == [kind |-> "absent"]
Unlistable == [kind |-> "unlistable"]
Directory(listing) == [kind |-> "dir", listing |-> listing]
Unread == [kind |-> "unread"]
Raises(e) == [kind |-> "raises", e |-> e]
Parses(data) == [kind |-> "json", data |-> data]

InitCall ==
    /\ obj \in Values
    /\ prefix \in Prefixes
    /\ keys = EmptyBag         \* line 5
    /\ pc = "call"
    /\ module = 1
    /\ fs = [dir |-> Unvisited, file |-> Unread]
    /\ opened = <<>>
    /\ stdout = <<>>

Call ==
    /\ pc = "call"
    /\ keys' = get_keys(obj, prefix)
    /\ pc' = "return"
    /\ UNCHANGED <<obj, prefix, module, fs, opened, stdout>>

NextCall == Call

SpecCall == InitCall /\ [][NextCall]_vars

\* a call that has been made runs to its return statement
FairSpecCall == SpecCall /\ WF_vars(Call)

(***************************************************************************)
(* The driver: module-level code, lines 17-40.                             *)
(***************************************************************************)
target_modules ==
    <<"bom", "item", "workorder", "bill", "journal", "receiving", "invoice", "salesorder">>
base_path == "recordings/dev/transactions"

\* line 21: os.path.join(base_path, module)
mod_dir(m) == <<base_path, m>>

Json == <<".", "j", "s", "o", "n">>
Ref == <<"r", "e", "f">>

\* line 26: f.endswith('.json') and 'ref' not in f
Eligible_AnyJson(f) == EndsWith(f, Json)
Eligible(f) == EndsWith(f, Json) /\ ~Contains(f, Ref)

\* line 26: the list comprehension over os.listdir(mod_dir)
FilterFiles(listing) == SelectSeq(listing, Eligible)

\* line 32: the files the try block opens
ToOpen_All(files) == files
ToOpen(files) == <<files[1]>>

\* line 35: the element keys.sort() puts first among those in S
Least_Greatest(S) == CHOOSE x \in S : \A y \in S : ~StrLess(x, y)
Least(S) == CHOOSE x \in S : \A y \in S : ~StrLess(y, x)

RECURSIVE sort(_)
\* line 35: keys.sort(); the elements of the list b, each as often as it occurs
sort(b) ==
    IF BagToSet(b) = {} THEN <<>>
    ELSE LET x == Least(BagToSet(b))
         IN [i \in 1..b[x] |-> x] \o sort([y \in BagToSet(b) \ {x} |-> b[y]])

\* the lines print writes
DirNotFound(m) == [text |-> "Directory not found: ", arg |-> mod_dir(m)]
NoFilesFound(m) == [text |-> "No files found in: ", arg |-> mod_dir(m)]
ErrorProcessing(m, e) == [text |-> "Error processing ", arg |-> m, e |-> e]
Header(m) == [text |-> "--- MODULE:  ---", arg |-> m]
KeyLine(k) == [text |-> "", arg |-> k]

\* directory entries and file contents the driver may meet
FileNames ==
    { <<"a">> \o Json, <<"b">> \o Json, <<"a">> \o Ref \o Json, <<"a", ".", "t", "x", "t">> }
Listings ==
    {l \in SeqsUpTo(FileNames, MaxFiles) : \A i, j \in 1..Len(l) : i # j => l[i] # l[j]}
A == <<"a">>
Documents ==
    { Scalar("str"), EmptyDict, EmptyList,
      Dict(A :> Num),
      Dict(A :> Dict(A :> Num)),
      Dict((Empty :> Dict(A :> Num)) @@ (A :> Num)),
      Dict((A \o Dot \o A :> Num) @@ (A :> Dict(A :> Num))),
      Dict((A \o Brackets :> Num) @@ (A :> List(<<Dict(A :> Num), Num>>))),
      List(<<Dict(A :> List(<<List(<<Num>>)>>))>>),
      List(<<Num, Dict(A :> Num)>>) }

Init ==
    /\ obj = Unbound
    /\ prefix = Unbound
    /\ keys = Unbound
    /\ pc = "loop"
    /\ module = 1
    /\ fs = [dir |-> Unvisited, file |-> Unread]
    /\ opened = <<>>
    /\ stdout = <<>>

\* lines 22-24: os.path.exists(mod_dir) is false
DirectoryNotFound ==
    /\ pc = "loop"
    /\ module <= Len(target_modules)
    /\ fs' = [dir |-> Absent, file |-> Unread]
    /\ stdout' = <<DirNotFound(target_modules[module])>>
    /\ opened' = <<>>
    /\ module' = module + 1
    /\ UNCHANGED <<obj, prefix, keys, pc>>

\* line 26: mod_dir exists but os.listdir raises (mod_dir is not a directory, may
\* not be read, or was removed after line 22); line 26 is outside the try block,
\* so the exception ends the script
ListdirRaises ==
    /\ pc = "loop"
    /\ module <= Len(target_modules)
    /\ fs' = [dir |-> Unlistable, file |-> Unread]
    /\ stdout' = <<>>
    /\ opened' = <<>>
    /\ pc' = "crashed"
    /\ UNCHANGED <<obj, prefix, keys, module>>

\* lines 26-29: the directory lists, no entry passes the filter
NoFiles ==
    /\ pc = "loop"
    /\ module <= Len(target_modules)
    /\ \E listing \in Listings :
          /\ FilterFiles(listing) = <<>>
          /\ fs' = [dir |-> Directory(listing), file |-> Unread]
          /\ stdout' = <<NoFilesFound(target_modules[module])>>
          /\ opened' = <<>>
    /\ module' = module + 1
    /\ UNCHANGED <<obj, prefix, keys, pc>>

\* lines 31-33, 39-40: open or json.load raises
ProcessingError ==
    /\ pc = "loop"
    /\ module <= Len(target_modules)
    /\ \E listing \in Listings, e \in {"OSError", "JSONDecodeError"} :
          LET files == FilterFiles(listing)
          IN /\ files # <<>>
             /\ fs' = [dir |-> Directory(listing), file |-> Raises(e)]
             /\ opened' = ToOpen(files)
             /\ stdout' = <<ErrorProcessing(target_modules[module], e)>>
    /\ module' = module + 1
    /\ UNCHANGED <<obj, prefix, keys, pc>>

\* lines 31-38: the file parses; its sorted key paths are printed under a header
PrintKeys ==
    /\ pc = "loop"
    /\ module <= Len(target_modules)
    /\ \E listing \in Listings, data \in Documents :
          LET files == FilterFiles(listing)
              ks == sort(get_keys(data, Empty))
          IN /\ files # <<>>
             /\ fs' = [dir |-> Directory(listing), file |-> Parses(data)]
             /\ opened' = ToOpen(files)
             /\ stdout' = <<Header(target_modules[module])>>
                              \o [i \in 1..Len(ks) |-> KeyLine(ks[i])]
    /\ module' = module + 1
    /\ UNCHANGED <<obj, prefix, keys, pc>>

\* line 20: target_modules is exhausted
Exit ==
    /\ pc = "loop"
    /\ module > Len(target_modules)
    /\ pc' = "exit"
    /\ UNCHANGED <<obj, prefix, keys, module, fs, opened, stdout>>

Next ==
    \/ DirectoryNotFound
    \/ ListdirRaises
    \/ NoFiles
    \/ ProcessingError
    \/ PrintKeys
    \/ Exit

Spec == Init /\ [][Next]_vars

(***************************************************************************)
(* Properties of get_keys, checked on the call under test (SpecCall).      *)
(***************************************************************************)
P == <<"p">>
Returned == pc = "return"
Result == BagToSet(keys)
IsContainer(v) == v.type \in {"dict", "list"}

\* the document {"a": [{"a": 1}, {"a": 1}]}
ItemsDoc == Dict(A :> List(<<Dict(A :> Num), Dict(A :> Num)>>))
\* the document {"": {"a": 1}, "a": 1}
EmptyKeyDoc == Dict((Empty :> Dict(A :> Num)) @@ (A :> Num))

\* C1 as stated: for a non-empty array whose first element is an object the
\* result holds the array's own '[]'-suffixed path as well as the paths below
\* it: 'k', 'k[]' and 'k[].m' for an object member k holding such an array, and
\* '[]' for such an array at the root with no prefix.
C1_ArrayPathEmitted ==
    Returned =>
        /\ (islist(obj) /\ obj.elems # <<>> /\ prefix = Empty) =>
              (isdict(obj.elems[1]) => Brackets \in Result)
        /\ isdict(obj) =>
              \A k \in DOMAIN obj.members :
                  LET v == obj.members[k]
                      full == IF prefix = Empty THEN k ELSE prefix \o Dot \o k
                  IN (islist(v) /\ v.elems # <<>>) =>
                       (isdict(v.elems[1]) =>
                          /\ full \in Result
                          /\ full \o Brackets \in Result
                          /\ \A m \in DOMAIN v.elems[1].members :
                                full \o Brackets \o Dot \o m \in Result)

\* C1 amended: for a non-empty array whose first element is an object the
\* result holds the paths below the array but not the array's own path:
\* get_keys(A, p) holds p[].m for every member m of A[0] and never p[] itself
\* ('[]' when p is empty); for an object member k holding such an array the
\* result holds 'k' and 'k[].m', and holds 'k[]' only when another member of
\* the object produces that string.
C1_OnlyPathsBelowArray ==
    Returned =>
        /\ (islist(obj) /\ obj.elems # <<>>) =>
              (isdict(obj.elems[1]) =>
                  LET pre == prefix \o Brackets
                  IN /\ pre \notin Result
                     /\ \A m \in DOMAIN obj.elems[1].members : pre \o Dot \o m \in Result)
        /\ isdict(obj) =>
              \A k \in DOMAIN obj.members :
                  LET v == obj.members[k]
                      full == IF prefix = Empty THEN k ELSE prefix \o Dot \o k
                  IN (islist(v) /\ v.elems # <<>>) =>
                       (isdict(v.elems[1]) =>
                          /\ full \in Result
                          /\ \A m \in DOMAIN v.elems[1].members :
                                full \o Brackets \o Dot \o m \in Result
                          /\ full \o Brackets \in Result =>
                                \E k2 \in DOMAIN obj.members \ {k} :
                                    LET full2 == IF prefix = Empty THEN k2
                                                 ELSE prefix \o Dot \o k2
                                    IN full \o Brackets \in
                                         {full2} \cup BagToSet(get_keys(obj.members[k2], full2)))

\* get_keys({"a": [{"a": 1}, {"a": 1}]}) has returned "a" and "a[].a", without "a[]"
C1_Witness ==
    /\ Returned
    /\ obj = ItemsDoc
    /\ prefix = Empty
    /\ Result = {A, A \o Brackets \o Dot \o A}

\* C2: for an object and any prefix p the result is the union, over the members
\* (k, v), of {full} and get_keys(v, full), where full is p.k for a non-empty p
\* and k otherwise; the result of {} is empty.
C2_ObjectIsUnionOverMembers ==
    (Returned /\ isdict(obj)) =>
        /\ Result = UNION { LET full == IF prefix = Empty THEN k ELSE prefix \o Dot \o k
                            IN {full} \cup BagToSet(get_keys(obj.members[k], full)) :
                            k \in DOMAIN obj.members }
        /\ DOMAIN obj.members = {} => Result = {}

\* get_keys({"a": {"a": 1}}) has returned "a" and "a.a"
C2_Witness ==
    /\ Returned
    /\ obj = Dict(A :> Dict(A :> Num))
    /\ prefix = Empty
    /\ Result = {A, A \o Dot \o A}

\* C3: for a non-empty array A whose first element is an object or an array, and
\* any prefix p, the result is that of get_keys(A[0], p[]) ('[]' for an empty p),
\* so replacing, adding or removing elements other than the first changes nothing.
C3_ArrayIsFirstElement ==
    (Returned /\ islist(obj)) =>
        ((obj.elems # <<>> /\ IsContainer(Head(obj.elems))) =>
            LET first == Head(obj.elems)
                pre == IF prefix = Empty THEN <<"[", "]">> ELSE prefix \o <<"[", "]">>
            IN /\ Result = BagToSet(get_keys(first, pre))
               /\ \A rest \in SeqsUpTo(Fillers, MaxLen - 1) :
                     BagToSet(get_keys(List(<<first>> \o rest), prefix)) = Result)

\* get_keys([{"": 1}, {"a": 1}], "p") has returned "p[]." only: the key of the
\* second element is absent
C3_Witness ==
    /\ Returned
    /\ obj = List(<<Dict(Empty :> Num), Dict(A :> Num)>>)
    /\ prefix = P
    /\ Result = {P \o Brackets \o Dot}

\* C4: the result is empty, for any prefix, for a scalar, an empty array and an
\* array whose first element is a scalar, whatever the later elements are; so
\* an object whose single member holds such an array yields that member's path only.
C4_NoPathsWithoutContainerFirst ==
    Returned =>
        LET Barren(v) == \/ v.type = "scalar"
                         \/ islist(v) /\ v.elems = <<>>
                         \/ islist(v) /\ v.elems # <<>> /\ Head(v.elems).type = "scalar"
        IN /\ Barren(obj) => keys = EmptyBag
           /\ isdict(obj) =>
                \A k \in DOMAIN obj.members :
                    (DOMAIN obj.members = {k} /\ Barren(obj.members[k])) =>
                        Result = {IF prefix = Empty THEN k ELSE prefix \o Dot \o k}

\* get_keys([1, {"a": 1}], "p") has returned nothing
C4_Witness ==
    /\ Returned
    /\ obj = List(<<Num, Dict(A :> Num)>>)
    /\ prefix = P
    /\ keys = EmptyBag

\* C5: on every document and prefix the call reaches its return statement and
\* the list it returns holds strings, each of them once.
C5_ReturnsWithoutDuplicates ==
    <>(/\ Returned
       /\ \A k \in DOMAIN keys : keys[k] = 1 /\ k \in Seq({".", "[", "]", "a", "p"}))

\* get_keys({"": {"a": 1}, "a": 1}) has returned "" and "a", the latter once
\* although two members produce it
C5_Witness ==
    /\ Returned
    /\ obj = EmptyKeyDoc
    /\ prefix = Empty
    /\ keys = SetToBag({Empty, A})

RECURSIVE Routes(_, _, _)
\* lines 6-14 again, keeping with each path appended at line 9 the steps
\* (member keys and sampled-element steps) that led to it
Routes(o, pre, route) ==
    IF isdict(o) THEN
        UNION { LET full == FullKey(pre, k)
                    here == Append(route, <<"member", k>>)
                IN {[route |-> here, path |-> full]}
                     \cup Routes(o.members[k], full, here) :
                k \in DOMAIN o.members }
    ELSE IF islist(o) THEN
        UNION { Routes(e, ElemPrefix(pre), Append(route, <<"element", Empty>>)) :
                e \in Sampled(o.elems) }
    ELSE {}

\* C8 as stated: every path comes from exactly one nesting route, whatever the
\* keys are, and a member below the root is never written as a bare key: its
\* path ends with '.' and the key.
C8_OneRoutePerPath ==
    Returned =>
        LET R == Routes(obj, prefix, <<>>)
        IN /\ \A r1, r2 \in R : r1.path = r2.path => r1.route = r2.route
           /\ \A r \in R :
                 Len(r.route) > 1 =>
                    EndsWith(r.path, Dot \o r.route[Len(r.route)][2])

\* the paths of Routes are the paths get_keys returns
RoutesAreKeys == Returned => {r.path : r \in Routes(obj, prefix, <<>>)} = Result

(***************************************************************************)
(* Properties of the driver (Spec).                                        *)
(***************************************************************************)
Latest == target_modules[module - 1]
Listed(l) == {l[i] : i \in 1..Len(l)}

\* C6 as stated: a failure in one category is reported with a message naming
\* the category or its directory and is never fatal: the loop ends only when
\* every category of the list has been processed.
C6_FailuresAreNotFatal ==
    /\ pc # "loop" => module = Len(target_modules) + 1
    /\ fs.dir.kind = "absent" => stdout = <<DirNotFound(Latest)>>
    /\ fs.file.kind = "raises" => stdout = <<ErrorProcessing(Latest, fs.file.e)>>

\* C7: for a category whose file parsed, the output is one header line naming
\* the category followed by exactly the paths of get_keys(parsed value), one per
\* line, each once, in strictly ascending order.
C7_HeaderThenSortedKeys ==
    fs.file.kind = "json" =>
        LET paths == BagToSet(get_keys(fs.file.data, Empty))
            n == Len(stdout)
        IN /\ n = 1 + Cardinality(paths)
           /\ stdout[1] = Header(Latest)
           /\ \A i \in 2..n : stdout[i] = KeyLine(stdout[i].arg)
           /\ {stdout[i].arg : i \in 2..n} = paths
           /\ \A i, j \in 2..n : i < j => StrLess(stdout[i].arg, stdout[j].arg)

\* {"a[]": 1, "a": [{"a": 1}, 1]} has been printed for the first module:
\* "a" < "a[]" < "a[].a"
C7_Witness ==
    /\ fs.file = Parses(Dict((A \o Brackets :> Num) @@ (A :> List(<<Dict(A :> Num), Num>>))))
    /\ stdout = <<Header("bom"), KeyLine(A), KeyLine(A \o Brackets),
                  KeyLine(A \o Brackets \o Dot \o A)>>

\* C9: an iteration opens at most one file, and that file is an entry of the
\* directory whose name ends with '.json' and does not contain 'ref'; a
\* directory without such an entry yields the 'No files found' line and no
\* file is opened, whatever else it holds.
C9_OneEligibleFile ==
    /\ Len(opened) <= 1
    /\ \A i \in 1..Len(opened) :
          /\ fs.dir.kind = "dir"
          /\ opened[i] \in Listed(fs.dir.listing)
          /\ EndsWith(opened[i], <<".", "j", "s", "o", "n">>)
          /\ ~Contains(opened[i], <<"r", "e", "f">>)
    /\ fs.dir.kind = "dir" =>
          ((\A f \in Listed(fs.dir.listing) :
                ~EndsWith(f, <<".", "j", "s", "o", "n">>) \/ Contains(f, <<"r", "e", "f">>)) =>
             /\ stdout = <<NoFilesFound(Latest)>>
             /\ opened = <<>>
             /\ fs.file = Unread)

\* a directory holding only aref.json and a.txt was reported as without files
C9_Witness ==
    /\ fs.dir = Directory(<< <<"a">> \o Ref \o Json, <<"a", ".", "t", "x", "t">> >>)
    /\ stdout = <<NoFilesFound(Latest)>>
    /\ opened = <<>>

\* one of the four outcomes of an iteration for module m, and nothing else
OneOutcome(out, f, m) ==
    \/ out = <<DirNotFound(m)>>
    \/ out = <<NoFilesFound(m)>>
    \/ \E e \in {"OSError", "JSONDecodeError"} : out = <<ErrorProcessing(m, e)>>
    \/ /\ out # <<>>
       /\ out[1] = Header(m)
       /\ \A i \in 2..Len(out) : out[i] = KeyLine(out[i].arg)
       /\ f.file.kind = "json"

\* C10 as stated: every iteration handles the next module of the list and emits
\* exactly one of the four outcomes for it, the header only for a file that was
\* read and parsed.
C10_OneOutcomePerModule ==
    [][(pc = "loop" /\ module <= Len(target_modules)) =>
          /\ module' = module + 1
          /\ OneOutcome(stdout', fs', target_modules[module])]_vars

====
